---- MODULE Spec2Model ----
(***************************************************************************)
(* The fixture loader of hardhat-network-helpers (loadFixture.ts): a       *)
(* module-level list of snapshot records, loadFixture with its hit and     *)
(* miss paths, and clearSnapshots.  Every await of loadFixture is a        *)
(* separate step of the call, so that calls can be followed across their   *)
(* suspension points.                                                      *)
(***************************************************************************)
EXTENDS Integers, Sequences, FiniteSets, TLC

\* ------------------------------------------------------------------ bounds
\* Fixture executions in one behaviour.
MaxRuns == 3
\* loadFixture calls that can be in flight (slots of the caller).
NumCalls == 2

Calls == 1 .. NumCalls

\* ------------------------------------------------------- JavaScript values
Num(n) == [t |-> "number", v |-> n]
Null == [t |-> "null", v |-> 0]
Undefined == [t |-> "undefined", v |-> 0]
BigInt(n) == [t |-> "bigint", v |-> n]

\* Function objects: identity and name. deployA and deployB are two
\* different functions that are both called "deploy"; anonymous is an
\* anonymous function.
deployA == [id |-> 1, name |-> "deploy"]
deployB == [id |-> 2, name |-> "deploy"]
setup == [id |-> 3, name |-> "setup"]
anonymous == [id |-> 4, name |-> ""]

\* A call the caller makes: the fixture, whether an argument list is given,
\* and the list.
Input(fixture, given, args) == [fixture |-> fixture, given |-> given, args |-> args]

\* The calls of the test suite.
Inputs ==
  { Input(deployA, TRUE, <<Null, Num(1)>>), Input(deployA, TRUE, <<Num(1), Null>>),
    Input(deployA, TRUE, <<Undefined, Num(1)>>), Input(deployA, TRUE, <<BigInt(1)>>),
    Input(deployB, TRUE, <<Null, Num(1)>>),
    Input(setup, FALSE, <<>>),
    Input(anonymous, FALSE, <<>>), Input(anonymous, TRUE, <<BigInt(1)>>) }

\* --------------------------------------------------------- JSON.stringify
\* A serialized text is the sequence of its tokens.

\* JSON.stringify throws a TypeError on a BigInt.
CanStringify(args) == \A i \in 1 .. Len(args) : args[i].t # "bigint"

\* An array element: a number prints as itself, null and undefined both
\* print as null.
StringifyElement(x) ==
  CASE x.t = "number" -> ToString(x.v)
    [] x.t = "null" -> "null"
    [] x.t = "undefined" -> "null"

RECURSIVE StringifyElements(_)
StringifyElements(args) ==
  IF args = <<>> THEN <<>>
  ELSE IF Len(args) = 1 THEN <<StringifyElement(args[1])>>
  ELSE <<StringifyElement(args[1]), ",">> \o StringifyElements(Tail(args))

\* JSON.stringify([name, args])
Stringify(name, args) ==
  <<"[", "\"", name, "\"", ",", "[">> \o StringifyElements(args) \o <<"]", "]">>

\* ----------------------------------------------------- snapshot ids, Number
HexBase == 16
HexDigits ==
  <<"0", "1", "2", "3", "4", "5", "6", "7", "8", "9", "a", "b", "c", "d", "e", "f">>

RECURSIVE HexOf(_)
HexOf(n) ==
  IF n < HexBase THEN <<HexDigits[n + 1]>>
  ELSE HexOf(n \div HexBase) \o <<HexDigits[(n % HexBase) + 1]>>

\* The id string the node hands out for its n-th snapshot: "0x" and the
\* hexadecimal digits of n.
SnapshotIdOf(n) == <<"0", "x">> \o HexOf(n)

DigitValue(ch) == CHOOSE d \in 0 .. HexBase - 1 : HexDigits[d + 1] = ch

RECURSIVE ParseHex(_, _)
ParseHex(digits, acc) ==
  IF digits = <<>> THEN acc
  ELSE ParseHex(Tail(digits), acc * HexBase + DigitValue(digits[1]))

\* Number(snapshotId) for a "0x..." string.
Number(s) == ParseHex(SubSeq(s, 3, Len(s)), 0)

\* The number of the first snapshot the node hands out to loadFixture: the
\* node has handed out snapshots before, and the ids of the run go from one
\* hexadecimal digit to two.
FirstId == HexBase - 1

\* -------------------------------------------------------------- the state
VARIABLES
  snapshots,  \* the module-level list of snapshot records
  pc,         \* where each call is
  frame,      \* the locals of each call: fixture, args, snapshot, data, restorer
              \* (and, for the properties, entry: the list as the call found it)
  outcome,    \* what each call returned or threw
  log,        \* the external operations each call has performed so far
  runs,       \* fixture executions so far
  nextId,     \* the node: the number of the next snapshot
  valid,      \* the node: the snapshots that can still be reverted to
  last,       \* the previous completed operation of the caller
  pruned,     \* the keys whose record a hit has removed and no miss has added back
  live        \* per fixture name and argument list, the latest execution that
              \* no clear and no restore of an older record has undone

vars == <<snapshots, pc, frame, outcome, log, runs, nextId, valid, last, pruned,
          live>>

NoFrame == [fixture |-> <<>>, args |-> <<>>, snapshot |-> <<>>, data |-> <<>>,
            restorer |-> <<>>, caught |-> <<>>, entry |-> <<>>]
NoOutcome == [kind |-> "none", value |-> <<>>, error |-> <<>>]
NoLast == [op |-> "none", fixture |-> <<>>, args |-> <<>>, path |-> "none",
           outcome |-> NoOutcome, on |-> <<>>]

Returned(data) == [kind |-> "returned", value |-> <<data>>, error |-> <<>>]
Threw(e) == [kind |-> "threw", value |-> <<>>, error |-> <<e>>]

Error(type) == [type |-> type, cause |-> <<>>]
FixtureAnonymousFunctionError == Error("FixtureAnonymousFunctionError")
InvalidSnapshotError == Error("InvalidSnapshotError")
FixtureSnapshotError(e) == [type |-> "FixtureSnapshotError", cause |-> <<e>>]
\* Errors of the collaborators: a failing fixture, a failing provider.
FixtureFailure == Error("FixtureFailure")
ProviderError == Error("ProviderError")
TypeError == Error("TypeError")

Event(op, on) == [op |-> op, on |-> on]

Init ==
  /\ snapshots = <<>>
  /\ pc = [c \in Calls |-> "idle"]
  /\ frame = [c \in Calls |-> NoFrame]
  /\ outcome = [c \in Calls |-> NoOutcome]
  /\ log = [c \in Calls |-> <<>>]
  /\ runs = 0
  /\ nextId = FirstId
  /\ valid = {}
  /\ last = NoLast
  /\ pruned = {}
  /\ live = {}

\* ------------------------------------------------------------ loadFixture
\* args: Args = []
DefaultArgs(given, args) == IF given THEN args ELSE <<>>

\* A key built from the function itself: JSON.stringify prints a function
\* in an array as null.
CacheKeyOfFunction(fixture, args) ==
  <<"[", "null", ",", "[">> \o StringifyElements(args) \o <<"]", "]">>

\* A key part that tells functions of the same name apart.
NameAndIdentity(fixture) == [name |-> fixture.name, id |-> fixture.id]

\* fixture.name, the part of the key that stands for the function.
NameOf(fixture) == fixture.name

\* const cacheKey = JSON.stringify([fixture.name, args])
CacheKey(fixture, args) == Stringify(NameOf(fixture), args)

\* The key of a record of the list: JSON.stringify([s.fixture.name, s.args])
KeyOf(s) == Stringify(NameOf(s.fixture), s.args)

\* A lookup whose comparison never succeeds.
FindNone(snaps, cacheKey) == <<>>

\* snapshots.find(...): the first record whose key is cacheKey, if any.
Find(snaps, cacheKey) ==
  LET found == {i \in 1 .. Len(snaps) :
                  KeyOf(snaps[i]) = cacheKey}
  IN IF found = {} THEN <<>>
     ELSE <<snaps[CHOOSE i \in found : \A j \in found : i <= j]>>

\* The comparison turned round: the records taken after snapshot are kept.
KeptNewer(s, snapshot) ==
  Number(s.restorer.snapshotId) >= Number(snapshot.restorer.snapshotId)

\* A strict comparison: the restored record is dropped as well.
KeptOlder(s, snapshot) ==
  Number(s.restorer.snapshotId) < Number(snapshot.restorer.snapshotId)

\* A filter that keeps every record.
KeptAll(s, snapshot) == TRUE

\* The filter's test: is s kept after snapshot was restored?
Kept(s, snapshot) ==
  Number(s.restorer.snapshotId) <= Number(snapshot.restorer.snapshotId)

\* snapshots.filter(...)
Filter(snaps, snapshot) == SelectSeq(snaps, LAMBDA s : Kept(s, snapshot))

\* A catch block that throws whatever it caught.
RethrowUnwrapped(e) == e

\* The catch block: the error the call fails with when restore() threw e.
Rethrow(e) ==
  IF e.type = "InvalidSnapshotError" THEN FixtureSnapshotError(e) ELSE e

\* The calls that have looked up the cache, missed, and not yet run their
\* fixture.
PendingMisses == {d \in Calls : pc[d] = "import" /\ frame[d].snapshot = <<>>}

\* The path a call takes once the import has resolved.
IsHit(c) == frame[c].snapshot # <<>>

\* A name check that lets every function through.
NeverAnonymous(fixture) == FALSE

\* fixture.name === ""
IsAnonymous(fixture) == fixture.name = ""

\* The call up to its first await: the name check, the key, the lookup.
LoadFixture(c, fixture, given, passed) ==
  LET args == DefaultArgs(given, passed) IN
  /\ pc[c] = "idle"
  /\ log' = [log EXCEPT ![c] = <<>>]
  /\ UNCHANGED <<snapshots, runs, nextId, valid, last, pruned, live>>
  /\ IF IsAnonymous(fixture)
     THEN /\ pc' = [pc EXCEPT ![c] = "threw"]
          /\ outcome' = [outcome EXCEPT ![c] = Threw(FixtureAnonymousFunctionError)]
          /\ frame' = [frame EXCEPT ![c] =
                         [NoFrame EXCEPT !.fixture = <<fixture>>, !.args = args,
                                         !.entry = snapshots]]
     ELSE IF ~CanStringify(args)
     THEN /\ pc' = [pc EXCEPT ![c] = "threw"]
          /\ outcome' = [outcome EXCEPT ![c] = Threw(TypeError)]
          /\ frame' = [frame EXCEPT ![c] =
                         [NoFrame EXCEPT !.fixture = <<fixture>>, !.args = args,
                                         !.entry = snapshots]]
     ELSE LET snapshot == Find(snapshots, CacheKey(fixture, args)) IN
          \* (a miss is taken only while MaxRuns leaves it an execution)
          /\ snapshot = <<>> => runs + Cardinality(PendingMisses) < MaxRuns
          /\ pc' = [pc EXCEPT ![c] = "import"]
          /\ outcome' = [outcome EXCEPT ![c] = NoOutcome]
          /\ frame' = [frame EXCEPT ![c] =
                         [NoFrame EXCEPT !.fixture = <<fixture>>, !.args = args,
                                         !.snapshot = snapshot,
                                         !.entry = snapshots]]

\* The import has resolved: the hit path calls restore(), the miss path
\* calls the fixture.
Imported(c) ==
  /\ pc[c] = "import"
  /\ IF IsHit(c)
     THEN /\ pc' = [pc EXCEPT ![c] = "restore"]
          /\ log' = [log EXCEPT ![c] =
                       Append(@, Event("restore", frame[c].snapshot[1].restorer.snapshotId))]
          /\ runs' = runs
     ELSE /\ pc' = [pc EXCEPT ![c] = "fixture"]
          /\ log' = [log EXCEPT ![c] = Append(@, Event("fixture", <<>>))]
          /\ runs' = runs + 1
  /\ UNCHANGED <<snapshots, frame, outcome, nextId, valid, last, pruned, live>>

\* ------------------------------------------------- the node (collaborator)
\* restore() of snapshot number k succeeds while k can be reverted to, and
\* the revert ends every snapshot taken after k.
Revert(k) == {i \in valid : i <= k}

\* restore() has reverted the node; the call goes on after its await.
RestoreReverts(c) ==
  /\ pc[c] = "restore"
  /\ Number(frame[c].snapshot[1].restorer.snapshotId) \in valid
  /\ valid' = Revert(Number(frame[c].snapshot[1].restorer.snapshotId))
  /\ pc' = [pc EXCEPT ![c] = "prune"]
  /\ UNCHANGED <<snapshots, frame, outcome, log, runs, nextId, last, pruned, live>>

\* The errors restore() can throw: InvalidSnapshotError if the snapshot is
\* gone, a provider error at any time.
RestoreErrors(c) ==
  {ProviderError} \cup
  (IF Number(frame[c].snapshot[1].restorer.snapshotId) \in valid
   THEN {} ELSE {InvalidSnapshotError})

\* A catch block that falls back to the miss path: the fixture is run.
RestoreThrowsFallsBack(c, e) ==
  /\ pc[c] = "restore"
  /\ e \in RestoreErrors(c)
  /\ pc' = [pc EXCEPT ![c] = "fixture"]
  /\ frame' = [frame EXCEPT ![c].caught = <<e>>]
  /\ log' = [log EXCEPT ![c] = Append(@, Event("fixture", <<>>))]
  /\ runs' = runs + 1
  /\ UNCHANGED <<snapshots, outcome, nextId, valid, last, pruned, live>>

\* A catch block that drops the record whose restore failed.
RestoreThrowsEvicts(c, e) ==
  /\ pc[c] = "restore"
  /\ e \in RestoreErrors(c)
  /\ pc' = [pc EXCEPT ![c] = "threw"]
  /\ frame' = [frame EXCEPT ![c].caught = <<e>>]
  /\ outcome' = [outcome EXCEPT ![c] = Threw(Rethrow(e))]
  /\ snapshots' = SelectSeq(snapshots, LAMBDA s : s # frame[c].snapshot[1])
  /\ UNCHANGED <<log, runs, nextId, valid, last, pruned, live>>

\* restore() threw e: the catch block.
RestoreThrows(c, e) ==
  /\ pc[c] = "restore"
  /\ e \in RestoreErrors(c)
  /\ pc' = [pc EXCEPT ![c] = "threw"]
  /\ frame' = [frame EXCEPT ![c].caught = <<e>>]
  /\ outcome' = [outcome EXCEPT ![c] = Threw(Rethrow(e))]
  /\ UNCHANGED <<snapshots, log, runs, nextId, valid, last, pruned, live>>

Keys(snaps) == {KeyOf(snaps[i]) : i \in 1 .. Len(snaps)}

\* After the await of restore(): prune, return the cached data.
Prune(c) ==
  /\ pc[c] = "prune"
  /\ snapshots' = Filter(snapshots, frame[c].snapshot[1])
  /\ log' = [log EXCEPT ![c] = Append(@, Event("filter", <<>>))]
  /\ pc' = [pc EXCEPT ![c] = "returned"]
  /\ outcome' = [outcome EXCEPT ![c] = Returned(frame[c].snapshot[1].data)]
  /\ pruned' = pruned \cup (Keys(snapshots) \ Keys(snapshots'))
  /\ live' = {e \in live : e.data.run <= frame[c].snapshot[1].data.run}
  /\ UNCHANGED <<frame, runs, nextId, valid, last>>

\* The result of a fixture execution: every execution yields a new value.
Result(fixture, args, run) == [run |-> run, of |-> fixture.id, with |-> args]

\* The fixture has completed; the call takes a snapshot.
FixtureResolves(c) ==
  /\ pc[c] = "fixture"
  /\ frame' = [frame EXCEPT ![c].data =
                 <<Result(frame[c].fixture[1], frame[c].args, runs)>>]
  /\ log' = [log EXCEPT ![c] = Append(@, Event("takeSnapshot", <<>>))]
  /\ pc' = [pc EXCEPT ![c] = "takeSnapshot"]
  /\ UNCHANGED <<snapshots, outcome, runs, nextId, valid, last, pruned, live>>

\* The fixture threw.
FixtureRejects(c) ==
  /\ pc[c] = "fixture"
  /\ pc' = [pc EXCEPT ![c] = "threw"]
  /\ outcome' = [outcome EXCEPT ![c] = Threw(FixtureFailure)]
  /\ UNCHANGED <<snapshots, frame, log, runs, nextId, valid, last, pruned, live>>

\* takeSnapshot() has taken the node's next snapshot.
SnapshotTaken(c) ==
  /\ pc[c] = "takeSnapshot"
  /\ nextId' = nextId + 1
  /\ valid' = valid \cup {nextId}
  /\ frame' = [frame EXCEPT ![c].restorer = <<[snapshotId |-> SnapshotIdOf(nextId)]>>]
  /\ pc' = [pc EXCEPT ![c] = "push"]
  /\ UNCHANGED <<snapshots, outcome, log, runs, last, pruned, live>>

\* takeSnapshot() threw.
TakeSnapshotThrows(c) ==
  /\ pc[c] = "takeSnapshot"
  /\ pc' = [pc EXCEPT ![c] = "threw"]
  /\ outcome' = [outcome EXCEPT ![c] = Threw(ProviderError)]
  /\ UNCHANGED <<snapshots, frame, log, runs, nextId, valid, last, pruned, live>>

\* The executions that stand once call c's execution has been recorded.
Executed(c) ==
  {e \in live : ~(e.name = frame[c].fixture[1].name /\ e.args = frame[c].args)}
    \cup {[name |-> frame[c].fixture[1].name, args |-> frame[c].args,
            data |-> frame[c].data[1]]}

\* The record is put in front of the list (unshift).
PushFront(c) ==
  /\ pc[c] = "push"
  /\ snapshots' = <<[restorer |-> frame[c].restorer[1],
                     fixture |-> frame[c].fixture[1],
                     args |-> frame[c].args,
                     data |-> frame[c].data[1]]>> \o snapshots
  /\ log' = [log EXCEPT ![c] = Append(@, Event("push", <<>>))]
  /\ pc' = [pc EXCEPT ![c] = "returned"]
  /\ outcome' = [outcome EXCEPT ![c] = Returned(frame[c].data[1])]
  /\ pruned' = pruned \ Keys(snapshots')
  /\ live' = Executed(c)
  /\ UNCHANGED <<frame, runs, nextId, valid, last>>

\* The data is returned and no record is kept.
PushNothing(c) ==
  /\ pc[c] = "push"
  /\ log' = [log EXCEPT ![c] = Append(@, Event("push", <<>>))]
  /\ pc' = [pc EXCEPT ![c] = "returned"]
  /\ outcome' = [outcome EXCEPT ![c] = Returned(frame[c].data[1])]
  /\ UNCHANGED <<snapshots, frame, runs, nextId, valid, last, pruned, live>>

\* A push that looks the key up again and keeps the list as it is when a
\* record for the key has arrived since the call's own lookup.
PushUnlessPresent(c) ==
  /\ pc[c] = "push"
  /\ snapshots' =
       IF CacheKey(frame[c].fixture[1], frame[c].args) \in Keys(snapshots)
       THEN snapshots
       ELSE Append(snapshots,
                   [restorer |-> frame[c].restorer[1],
                    fixture |-> frame[c].fixture[1],
                    args |-> frame[c].args,
                    data |-> frame[c].data[1]])
  /\ log' = [log EXCEPT ![c] = Append(@, Event("push", <<>>))]
  /\ pc' = [pc EXCEPT ![c] = "returned"]
  /\ outcome' = [outcome EXCEPT ![c] = Returned(frame[c].data[1])]
  /\ pruned' = pruned \ Keys(snapshots')
  /\ live' = Executed(c)
  /\ UNCHANGED <<frame, runs, nextId, valid, last>>

\* After the await of takeSnapshot(): push the record, return the data.
Push(c) ==
  /\ pc[c] = "push"
  /\ snapshots' = Append(snapshots,
                         [restorer |-> frame[c].restorer[1],
                          fixture |-> frame[c].fixture[1],
                          args |-> frame[c].args,
                          data |-> frame[c].data[1]])
  /\ log' = [log EXCEPT ![c] = Append(@, Event("push", <<>>))]
  /\ pc' = [pc EXCEPT ![c] = "returned"]
  /\ outcome' = [outcome EXCEPT ![c] = Returned(frame[c].data[1])]
  /\ pruned' = pruned \ Keys(snapshots')
  /\ live' = Executed(c)
  /\ UNCHANGED <<frame, runs, nextId, valid, last>>

\* The path a finished call took.
PathOf(c) ==
  IF \E i \in 1 .. Len(log[c]) : log[c][i].op = "restore" THEN "hit"
  ELSE IF \E i \in 1 .. Len(log[c]) : log[c][i].op = "fixture" THEN "miss"
  ELSE "none"

\* What the caller remembers of a call: the path and the outcome, and for a
\* call that returned or that tried a restore, what it asked for and the
\* snapshot it restored.
Completed(c) ==
  IF pc[c] = "returned" \/ PathOf(c) = "hit"
  THEN [op |-> "loadFixture", fixture |-> frame[c].fixture, args |-> frame[c].args,
        path |-> PathOf(c), outcome |-> outcome[c],
        on |-> IF PathOf(c) = "hit" THEN log[c][1].on ELSE <<>>]
  ELSE [NoLast EXCEPT !.op = "loadFixture", !.path = PathOf(c), !.outcome = outcome[c]]

\* The caller's await of the call ends: it has the result or the error.
Settle(c) ==
  /\ pc[c] \in {"returned", "threw"}
  /\ last' = Completed(c)
  /\ pc' = [pc EXCEPT ![c] = "idle"]
  /\ frame' = [frame EXCEPT ![c] = NoFrame]
  /\ outcome' = [outcome EXCEPT ![c] = NoOutcome]
  /\ log' = [log EXCEPT ![c] = <<>>]
  /\ UNCHANGED <<snapshots, runs, nextId, valid, pruned, live>>

\* --------------------------------------------------------- clearSnapshots
\* A clear that leaves the list as it is.
ClearNothing ==
  /\ last' = [NoLast EXCEPT !.op = "clearSnapshots"]
  /\ live' = {}
  /\ UNCHANGED <<snapshots, pc, frame, outcome, log, runs, nextId, valid, pruned>>

ClearSnapshots ==
  /\ snapshots' = <<>>
  /\ last' = [NoLast EXCEPT !.op = "clearSnapshots"]
  /\ live' = {}
  /\ UNCHANGED <<pc, frame, outcome, log, runs, nextId, valid, pruned>>

\* The node is reset from outside (restarted, hardhat_reset): no snapshot
\* can be reverted to any more.
NodeReset ==
  /\ valid # {}
  /\ valid' = {}
  /\ UNCHANGED <<snapshots, pc, frame, outcome, log, runs, nextId, last, pruned, live>>

\* ------------------------------------------------------ the specifications
\* Every call is awaited before the next operation is issued.
AllIdle == \A c \in Calls : pc[c] = "idle"

Step(c) ==
  \/ Imported(c)
  \/ RestoreReverts(c)
  \/ \E e \in {InvalidSnapshotError, ProviderError} : RestoreThrows(c, e)
  \/ Prune(c)
  \/ FixtureResolves(c)
  \/ FixtureRejects(c)
  \/ SnapshotTaken(c)
  \/ TakeSnapshotThrows(c)
  \/ Push(c)
  \/ Settle(c)

\* A new call takes the first free slot.
FreeSlot(c) == pc[c] = "idle" /\ \A d \in Calls : d < c => pc[d] # "idle"

Next ==
  \/ \E c \in Calls, in \in Inputs :
       AllIdle /\ FreeSlot(c) /\ LoadFixture(c, in.fixture, in.given, in.args)
  \/ \E c \in Calls : Step(c)
  \/ AllIdle /\ ClearSnapshots
  \/ NodeReset

Spec == Init /\ [][Next]_vars

\* The same calls against a node that nobody resets from outside.
NextNoReset ==
  \/ \E c \in Calls, in \in Inputs :
       AllIdle /\ FreeSlot(c) /\ LoadFixture(c, in.fixture, in.given, in.args)
  \/ \E c \in Calls : Step(c)
  \/ AllIdle /\ ClearSnapshots

SpecNoReset == Init /\ [][NextNoReset]_vars

\* The calls that pass the name check and whose key can be built.
NamedInputs ==
  {in \in Inputs :
     ~IsAnonymous(in.fixture) /\ CanStringify(DefaultArgs(in.given, in.args))}

\* Sequentially awaited calls that all succeed: no fixture, takeSnapshot or
\* restore fails.
NextSuccessful ==
  \/ \E c \in Calls, in \in NamedInputs :
       AllIdle /\ FreeSlot(c) /\ LoadFixture(c, in.fixture, in.given, in.args)
  \/ \E c \in Calls :
       \/ Imported(c)
       \/ RestoreReverts(c)
       \/ Prune(c)
       \/ FixtureResolves(c)
       \/ SnapshotTaken(c)
       \/ Push(c)
       \/ Settle(c)
  \/ AllIdle /\ ClearSnapshots

SpecSuccessful == Init /\ [][NextSuccessful]_vars

\* The call of the interleaved specification: one key, asked for by every
\* call.
InterleavedInputs == {Input(deployA, TRUE, <<Null, Num(1)>>)}

\* A first call and a second one: the slots of the calls that may overlap.
Overlapping == {c \in Calls : c <= 2}

\* Calls that are not awaited: a call or a clear may start while another
\* call is suspended at an await.
NextInterleaved ==
  \/ \E c \in Overlapping, in \in InterleavedInputs :
       FreeSlot(c) /\ LoadFixture(c, in.fixture, in.given, in.args)
  \/ \E c \in Overlapping : Step(c)
  \/ ClearSnapshots

SpecInterleaved == Init /\ [][NextInterleaved]_vars

\* ================================================================ properties
\* The operations call c has performed, by name.
Count(c, op) == Cardinality({i \in 1 .. Len(log[c]) : log[c][i].op = op})

\* Call c asks for what the previous operation, a miss that returned, asked for.
RepeatsLastMiss(c) ==
  /\ pc[c] # "idle"
  /\ last.op = "loadFixture"
  /\ last.path = "miss"
  /\ last.outcome.kind = "returned"
  /\ last.fixture = frame[c].fixture
  /\ last.args = frame[c].args

\* The call has computed its key and looked the list up, and has not failed.
Underway(c) == pc[c] \in {"import", "restore", "prune", "fixture", "takeSnapshot", "push"}

C2_PrunedThenReexecuted ==
  \A c \in Calls :
    /\ (pc[c] = "returned" /\ IsHit(c)) =>
         \A i \in 1 .. Len(snapshots) :
           Number(snapshots[i].restorer.snapshotId)
             <= Number(frame[c].snapshot[1].restorer.snapshotId)
    /\ (Underway(c) /\ CacheKey(frame[c].fixture[1], frame[c].args) \in pruned) =>
         /\ ~IsHit(c)
         /\ pc[c] # "import" => Count(c, "fixture") = 1
    /\ (pc[c] = "returned" /\ ~IsHit(c)) =>
         /\ Count(c, "fixture") = 1
         /\ Len(snapshots) > 0
         /\ KeyOf(snapshots[Len(snapshots)]) = CacheKey(frame[c].fixture[1], frame[c].args)
         /\ snapshots[Len(snapshots)].data = frame[c].data[1]
         /\ Number(snapshots[Len(snapshots)].restorer.snapshotId) = nextId - 1

C2_Witness ==
  \E c \in Calls :
    /\ pc[c] = "push"
    /\ CacheKey(frame[c].fixture[1], frame[c].args) \in pruned
    /\ Len(snapshots) > 0

\* C3: the list never holds two records with the same key, whatever calls
\* returned or failed before.
C3_OneRecordPerKey ==
  \A i, j \in 1 .. Len(snapshots) : i # j => KeyOf(snapshots[i]) # KeyOf(snapshots[j])

C3_Witness ==
  /\ Len(snapshots) >= 2
  /\ pruned # {}
  /\ last.outcome.kind = "threw"

\* C4: a call hits only a record whose argument list equals its own: a call
\* whose list differs from that of every record of its fixture name, in a
\* value or in the order, is a miss.
C4_DifferentArgsMiss ==
  \A c \in Calls :
    (Underway(c) /\ IsHit(c)) =>
      /\ frame[c].snapshot[1].fixture.name = frame[c].fixture[1].name
      /\ frame[c].snapshot[1].args = frame[c].args

\* The operations call c has performed, in order.
Ops(c) == [i \in 1 .. Len(log[c]) |-> log[c][i].op]

C7_RestoreErrors ==
  \A c \in Calls :
    frame[c].caught # <<>> =>
      /\ pc[c] = "threw"
      /\ outcome[c].kind = "threw"
      /\ outcome[c].value = <<>>
      /\ Ops(c) = <<"restore">>
      /\ frame[c].caught[1].type = "InvalidSnapshotError" =>
           outcome[c].error =
             <<[type |-> "FixtureSnapshotError", cause |-> frame[c].caught]>>
      /\ frame[c].caught[1].type # "InvalidSnapshotError" =>
           outcome[c].error = frame[c].caught

C7_Witness ==
  \E c \in Calls :
    /\ frame[c].caught = <<InvalidSnapshotError>>
    /\ outcome[c].error[1].type = "FixtureSnapshotError"
    /\ last.path = "hit"
    /\ last.outcome.error = <<ProviderError>>

\* C8: a miss runs in this order: the fixture, then (once it has completed
\* and its data is there) takeSnapshot, then (once the restorer is there) the
\* push of {restorer, fixture, args, data} at the end of the list, then the
\* return of the data; until the push the list holds no record for the key,
\* and every record of the list has a snapshot the node has taken.
C8_MissOrder ==
  /\ \A i \in 1 .. Len(snapshots) : Number(snapshots[i].restorer.snapshotId) < nextId
  /\ \A c \in Calls :
       /\ pc[c] = "fixture" =>
            (Ops(c) = <<"fixture">> /\ frame[c].data = <<>> /\ frame[c].restorer = <<>>)
       /\ pc[c] = "takeSnapshot" =>
            /\ Ops(c) = <<"fixture", "takeSnapshot">>
            /\ frame[c].data # <<>>
            /\ frame[c].restorer = <<>>
       /\ pc[c] = "push" =>
            /\ Ops(c) = <<"fixture", "takeSnapshot">>
            /\ frame[c].data # <<>>
            /\ frame[c].restorer = <<[snapshotId |-> SnapshotIdOf(nextId - 1)]>>
       /\ pc[c] \in {"fixture", "takeSnapshot", "push"} =>
            \A i \in 1 .. Len(snapshots) :
              /\ KeyOf(snapshots[i]) # CacheKey(frame[c].fixture[1], frame[c].args)
              /\ snapshots[i].data.run # runs
       /\ (pc[c] = "returned" /\ ~IsHit(c)) =>
            /\ Ops(c) = <<"fixture", "takeSnapshot", "push">>
            /\ outcome[c] = [kind |-> "returned", value |-> frame[c].data, error |-> <<>>]
            /\ Len(snapshots) > 0
            /\ snapshots[Len(snapshots)] =
                 [restorer |-> frame[c].restorer[1], fixture |-> frame[c].fixture[1],
                  args |-> frame[c].args, data |-> frame[c].data[1]]

C8_Witness ==
  \E c \in Calls :
    /\ pc[c] = "returned"
    /\ ~IsHit(c)
    /\ Len(snapshots) = 3
    /\ Ops(c) = <<"fixture", "takeSnapshot", "push">>

\* C9: the list is strictly increasing in Number(snapshotId) from first to
\* last record, and that is the order in which the records were created.
C9_ListOrderIsCreationOrder ==
  \A i, j \in 1 .. Len(snapshots) :
    i < j =>
      /\ Number(snapshots[i].restorer.snapshotId) < Number(snapshots[j].restorer.snapshotId)
      /\ snapshots[i].data.run < snapshots[j].data.run

C9_Witness ==
  /\ Len(snapshots) = 2
  /\ last.path = "miss"
  /\ snapshots[1].restorer.snapshotId = <<"0", "x", "f">>
  /\ snapshots[2].restorer.snapshotId = <<"0", "x", "1", "1">>

\* C10: the prune of a hit on record r leaves exactly the prefix of the list
\* that ends at r: every record with an id up to r's stays, in order and
\* unchanged, none is added, and a hit on the last record changes nothing;
\* no other step of a hit changes the list.
C10_HitOnlyTruncates ==
  [][\A c \in Calls :
       /\ (pc[c] = "prune" /\ pc'[c] = "returned") =>
            \E n \in 1 .. Len(snapshots) :
              /\ snapshots[n] = frame[c].snapshot[1]
              /\ snapshots' = SubSeq(snapshots, 1, n)
              /\ n = Len(snapshots) => snapshots' = snapshots
              /\ \A i \in 1 .. Len(snapshots) :
                   Number(snapshots[i].restorer.snapshotId)
                     <= Number(snapshots[n].restorer.snapshotId) => i <= n
       /\ (IsHit(c) /\ pc[c] # "prune") => snapshots' = snapshots]_vars

C10_Witness ==
  \E c \in Calls :
    /\ pc[c] = "returned"
    /\ IsHit(c)
    /\ Len(snapshots) = 2
    /\ snapshots[2] = frame[c].snapshot[1]
    /\ nextId = FirstId + 3

\* C11: a call performs each operation at most once and stays on one path:
\* a hit calls restore() once, on the restorer of the record it found, and
\* neither the fixture nor takeSnapshot; a miss calls the fixture once,
\* takeSnapshot at most once and no restore(); a call whose operation failed
\* has failed with that operation as its last one, without a second attempt
\* and without an operation of the other path.
C11_OncePerCallOnePath ==
  \A c \in Calls :
    /\ \A op \in {"restore", "filter", "fixture", "takeSnapshot", "push"} :
         Count(c, op) <= 1
    /\ (IsHit(c) /\ pc[c] \in {"restore", "prune", "returned", "threw"}) =>
         /\ Ops(c) \in {<<"restore">>, <<"restore", "filter">>}
         /\ log[c][1].on = frame[c].snapshot[1].restorer.snapshotId
    /\ (~IsHit(c) /\ pc[c] \in {"fixture", "takeSnapshot", "push", "returned"}) =>
         Ops(c) \in {<<"fixture">>, <<"fixture", "takeSnapshot">>,
                     <<"fixture", "takeSnapshot", "push">>}
    /\ pc[c] = "threw" =>
         /\ outcome[c].kind = "threw"
         /\ outcome[c].value = <<>>
         /\ Ops(c) \in {<<>>, <<"restore">>, <<"fixture">>, <<"fixture", "takeSnapshot">>}
         /\ Ops(c) = <<"restore">> => frame[c].caught # <<>>
         /\ Ops(c) = <<"fixture">> => outcome[c].error = <<FixtureFailure>>
         /\ Ops(c) = <<"fixture", "takeSnapshot">> => outcome[c].error = <<ProviderError>>
    /\ pc[c] = "returned" =>
         Ops(c) \in {<<"restore", "filter">>, <<"fixture", "takeSnapshot", "push">>}

C11_Witness ==
  \E c \in Calls :
    /\ pc[c] = "threw"
    /\ Ops(c) = <<"fixture", "takeSnapshot">>
    /\ last.path = "hit"
    /\ last.outcome.kind = "threw"
    /\ Len(snapshots) >= 1

\* Record s was made by another function than the one call c passes, of the
\* same name and with the same argument list.
SameNameOtherFunction(c, s) ==
  /\ s.fixture.name = frame[c].fixture[1].name
  /\ s.fixture # frame[c].fixture[1]
  /\ s.args = frame[c].args

RepeatsLastFailedHit(c) ==
  /\ pc[c] # "idle"
  /\ last.op = "loadFixture"
  /\ last.path = "hit"
  /\ last.outcome.kind = "threw"
  /\ last.fixture = frame[c].fixture
  /\ last.args = frame[c].args

\* C13: a call that has failed has left the list as it found it: after a
\* failed fixture no snapshot was asked for and nothing was pushed, after a
\* failed takeSnapshot nothing was pushed, after a failed restore nothing was
\* pruned and the record is still there; the call with the same fixture and
\* arguments that follows a failed restore finds that record, executes no
\* fixture and calls restore() on the same snapshot.
C13_FailedCallLeavesList ==
  \A c \in Calls :
    /\ pc[c] = "threw" =>
         /\ snapshots = frame[c].entry
         /\ Count(c, "push") = 0
         /\ Count(c, "filter") = 0
         /\ frame[c].restorer = <<>>
         /\ outcome[c].error = <<FixtureFailure>> => Count(c, "takeSnapshot") = 0
         /\ frame[c].caught # <<>> =>
              \E i \in 1 .. Len(snapshots) : snapshots[i] = frame[c].snapshot[1]
    /\ RepeatsLastFailedHit(c) =>
         /\ IsHit(c)
         /\ frame[c].snapshot[1].restorer.snapshotId = last.on
         /\ Count(c, "fixture") = 0
         /\ pc[c] # "import" => log[c][1] = Event("restore", last.on)

C13_Witness ==
  \E c \in Calls :
    /\ RepeatsLastFailedHit(c)
    /\ pc[c] = "threw"
    /\ frame[c].caught = <<InvalidSnapshotError>>
    /\ Len(snapshots) >= 2
    /\ frame[c].snapshot[1] = snapshots[1]

\* C14: with a node that issues increasing ids, that ends the snapshots
\* taken after k when it reverts to k, and that is not reset from outside,
\* every record of the list has a snapshot the node can still revert to
\* (between the calls, and within a call but for the moment between the
\* revert and the filter that follows it); so restore() never throws
\* InvalidSnapshotError and no call fails with FixtureSnapshotError.
C14_RecordsStayValid ==
  /\ (\A c \in Calls : pc[c] # "prune") =>
       \A i \in 1 .. Len(snapshots) : Number(snapshots[i].restorer.snapshotId) \in valid
  /\ \A c \in Calls :
       /\ pc[c] = "restore" => Number(frame[c].snapshot[1].restorer.snapshotId) \in valid
       /\ frame[c].caught # <<InvalidSnapshotError>>
       /\ \A i \in 1 .. Len(outcome[c].error) :
            outcome[c].error[i].type # "FixtureSnapshotError"

C14_Witness ==
  \E c \in Calls :
    /\ pc[c] = "restore"
    /\ Len(snapshots) = 2
    /\ pruned # {}
    /\ Cardinality(valid) = 2
    /\ nextId = FirstId + 3
    /\ frame[c].snapshot[1] = snapshots[2]

\* The standing executions for the fixture name and the argument list of
\* call c.
LiveFor(c) ==
  {e \in live : e.name = frame[c].fixture[1].name /\ e.args = frame[c].args}

\* C15: when all calls succeed, a call executes its fixture exactly when its
\* fixture name and argument list were never loaded, or a clear or a restore
\* of a record older than their latest execution came after that execution;
\* otherwise it is a hit and returns the data of that execution.
C15_ExecutesIffUndone ==
  \A c \in Calls :
    /\ pc[c] = "import" => (IsHit(c) <=> LiveFor(c) # {})
    /\ pc[c] \in {"restore", "prune", "fixture", "takeSnapshot", "push", "returned"} =>
         (Count(c, "fixture") = 1 <=> ~IsHit(c))
    /\ (pc[c] = "returned" /\ IsHit(c)) =>
         \E e \in LiveFor(c) : outcome[c].value = <<e.data>>

\* The standing executions whose serialized key is the key of call c.
LiveForKey(c) ==
  {e \in live :
     Stringify(e.name, e.args) = Stringify(frame[c].fixture[1].name, frame[c].args)}

\* The same, with "loaded" read as "a call with the same serialized key":
\* this is what holds of the lookup.
ExecutesIffKeyUndone ==
  \A c \in Calls :
    /\ pc[c] = "import" => (IsHit(c) <=> LiveForKey(c) # {})
    /\ pc[c] \in {"restore", "prune", "fixture", "takeSnapshot", "push", "returned"} =>
         (Count(c, "fixture") = 1 <=> ~IsHit(c))
    /\ (pc[c] = "returned" /\ IsHit(c)) =>
         \E e \in LiveForKey(c) : outcome[c].value = <<e.data>>

\* The key of call c.
KeyOfCall(c) == CacheKey(frame[c].fixture[1], frame[c].args)

\* The records of the list that have key k.
RecordsFor(k) == {i \in 1 .. Len(snapshots) : KeyOf(snapshots[i]) = k}

\* C16 (as stated): when calls interleave at their awaits, two calls with the
\* same key that are in flight together have executed the fixture at most
\* once between them, and once every call has completed the list holds at
\* most one record per key.
C16_InterleavedStaysSafe ==
  /\ \A c, d \in Calls :
       (c # d /\ Underway(c) /\ Underway(d) /\ KeyOfCall(c) = KeyOfCall(d)) =>
         Count(c, "fixture") + Count(d, "fixture") <= 1
  /\ AllIdle => \A k \in Keys(snapshots) : Cardinality(RecordsFor(k)) <= 1

\* The push of call c: the list grows by one record, which has c's key.
Pushes(c) ==
  /\ Len(snapshots') = Len(snapshots) + 1
  /\ SubSeq(snapshots', 1, Len(snapshots)) = snapshots
  /\ KeyOf(snapshots'[Len(snapshots')]) = KeyOfCall(c)
  /\ snapshots'[Len(snapshots')].data = frame[c].data[1]

\* C16 (amended): when calls interleave at their awaits, a call is a hit
\* exactly when the list held a record for its key when the call started, and
\* then it neither executes the fixture nor pushes; a call that started
\* without such a record executes the fixture once and pushes its own record,
\* also when an overlapping call has pushed a record for the same key in the
\* meantime, so the list holds up to one record of a key per overlapping
\* call.
C16_OverlappingMissesRepeat ==
  /\ [](\A c \in Calls :
          (Underway(c) \/ pc[c] = "returned") =>
            /\ IsHit(c) <=> KeyOfCall(c) \in Keys(frame[c].entry)
            /\ IsHit(c) => Count(c, "fixture") = 0 /\ Count(c, "push") = 0
            /\ (~IsHit(c) /\ pc[c] # "import") => Count(c, "fixture") = 1
            /\ (~IsHit(c) /\ pc[c] = "returned") => Count(c, "push") = 1)
  /\ [](\A k \in Keys(snapshots) :
          Cardinality(RecordsFor(k)) <= Cardinality(Overlapping))
  /\ [][\A c \in Calls : (pc[c] = "push" /\ pc'[c] = "returned") => Pushes(c)]_vars

\* Two calls with the same key that both missed have both returned, and the
\* list holds a record of each.
C16_Witness ==
  \E c, d \in Calls :
    /\ c # d
    /\ pc[c] = "returned" /\ pc[d] = "returned"
    /\ ~IsHit(c) /\ ~IsHit(d)
    /\ KeyOfCall(c) = KeyOfCall(d)
    /\ Count(c, "fixture") = 1 /\ Count(d, "fixture") = 1
    /\ Len(snapshots) = 2
    /\ Cardinality(RecordsFor(KeyOfCall(c))) = 2
    /\ snapshots[1].data # snapshots[2].data

====
